---- MODULE Spec2Model ----
(***************************************************************************)
(* GoogleDriveFileSystem (src/src/filesystem/gdrive_filesystem.py): the    *)
(* path-addressed adapter over the id-addressed Drive store.               *)
(*                                                                         *)
(* Every session runs one adapter call at a time; a call is a sequence of  *)
(* blocking remote calls (files().list / get_media / update / create /     *)
(* delete), and each remote call is one atomic step of the model, so that  *)
(* calls of different sessions interleave between their remote calls.      *)
(*                                                                         *)
(* A path is kept as the list of its segments (path.strip('/').split('/')),*)
(* the root path ('/' or '') being the empty list.                         *)
(***************************************************************************)
EXTENDS Integers, Sequences, FiniteSets, TLC

\* ------------------------------------------------------------------ bounds
MaxObjects == 4      \* ids the remote store can hand out (then: quota error)
MaxOps == 3          \* adapter calls started in one behaviour
MaxClock == 1        \* ticks of the wall clock
ChunkLen == 1        \* bytes one next_chunk() of a download fetches
MaxSegmentLen == 3   \* characters of a path segment given to the escaping

Sessions == {1, 2}

\* --------------------------------------------------------------- constants
RootId == 0                       \* the id alias 'root'
cache_timeout == 60               \* self._cache_timeout, in seconds
NoId == -1                        \* None / absent field
FOLDER == "application/vnd.google-apps.folder"
BINARY == "application/octet-stream"

B0 == <<0>>                       \* payloads (byte strings)
B1 == <<1, 1>>
B2 == <<2, 2>>
Payloads == {B1, B2}

PathInputs == {<<>>, <<"a">>, <<"a", "b">>, <<"b", "a">>}

ConcurrentPaths == {<<>>, <<"a">>}

\* The new paths of rename: in another directory than the old path, and the
\* root path.
NewPathInputs == {<<"b", "a">>, <<>>}

OpKinds == {"stat", "list", "read", "write", "delete", "mkdir", "rename"}

VARIABLES
    files,        \* the remote store: set of object records
    nextId,       \* next id the remote store hands out
    now,          \* wall clock (time.time(), and the remote's clock)
    cache,        \* self._cache
    budget,       \* adapter calls that may still be started
    callers,      \* the sessions with a connected client
    paths,        \* the paths the clients ask for
    pc,           \* per session: position in the running call
    op,           \* per session: the call and its arguments
    walk,         \* per session: loop state of _get_file_by_path
    file_info,    \* per session: local file_info / existing_file
    parent_info,  \* per session: local parent_info
    fh,           \* per session: the download buffer of read_file
    result,       \* per session: what the last call returned or raised
    calls,        \* per session: remote calls issued by the running/last call
    prev,         \* per session: the call it completed before this call
    undisturbed,  \* per session: no store change since its call started
    env,          \* the environment of the process: .env settings, files
    main,         \* the process: position in main(), its config and errors
    esc           \* one lookup query: the segment, its escaping, the query

vars == <<files, nextId, now, cache, budget, callers, paths, pc, op, walk,
          file_info, parent_info, fh, result, calls, prev, undisturbed,
          env, main, esc>>

\* What a step of one session's call leaves alone, besides the store.
others == <<now, cache, budget, callers, paths, op, prev, env, main, esc>>

\* ------------------------------------------------------------ remote store
\* A timestamp field of the remote: an RFC 3339 string in UTC ("...Z") for
\* the instant `sec`; NoTime when the object carries no such field.
TimeStr(sec) == [sec |-> sec, zone |-> "Z"]
NoTime == [sec |-> NoId, zone |-> ""]

\* An object of the store.
Obj(id, name, mime, parent, content, mt, ct, trashed) ==
    [id |-> id, name |-> name, mimeType |-> mime, parent |-> parent,
     content |-> content, modifiedTime |-> mt, createdTime |-> ct,
     trashed |-> trashed]

EmptyStore == {}

\* /a (folder) with /a/b (a file that carries no timestamps), and a trashed
\* file that was /a, with a lower id.
TreeStore ==
    { Obj(1, "a", BINARY, RootId, B0, TimeStr(0), TimeStr(0), TRUE),
      Obj(2, "a", FOLDER, RootId, <<>>, TimeStr(0), TimeStr(0), FALSE),
      Obj(3, "b", BINARY, 2, B0, NoTime, NoTime, FALSE) }

InitStores == {EmptyStore, TreeStore}

\* A corrupted store: the folder /a, and two folders that are each other's
\* parent.
CycleStore ==
    { Obj(1, "a", FOLDER, RootId, <<>>, TimeStr(0), TimeStr(0), FALSE),
      Obj(2, "b", FOLDER, 3, <<>>, TimeStr(0), TimeStr(0), FALSE),
      Obj(3, "a", FOLDER, 2, <<>>, TimeStr(0), TimeStr(0), FALSE) }

\* The fields a files().list / files().get answer carries for one object
\* (fields="files(id, name, mimeType, size, modifiedTime, createdTime)");
\* a folder has no size.
Meta(o) ==
    [id |-> o.id, name |-> o.name, mimeType |-> o.mimeType,
     size |-> IF o.mimeType = FOLDER THEN NoId ELSE Len(o.content),
     modifiedTime |-> o.modifiedTime, createdTime |-> o.createdTime]

\* None
NoNode ==
    [id |-> NoId, name |-> "", mimeType |-> "", size |-> NoId,
     modifiedTime |-> NoTime, createdTime |-> NoTime]

\* The synthetic root node of _get_file_by_path.
RootNode ==
    [id |-> RootId, name |-> "/", mimeType |-> FOLDER, size |-> NoId,
     modifiedTime |-> NoTime, createdTime |-> NoTime]

\* Mutant of Query: the query without its trashed=false clause.
QueryWithTrashed(fs, part, parent_id) ==
    {o \in fs : o.name = part /\ o.parent = parent_id}

\* Mutant of Query: the query without its '<parent_id>' in parents clause.
QueryAnyParent(fs, part, parent_id) ==
    {o \in fs : o.name = part /\ ~o.trashed}

\* The remote's answer to  name='<part>' and '<parent_id>' in parents and
\* trashed=false.
Query(fs, part, parent_id) ==
    {o \in fs : o.name = part /\ o.parent = parent_id /\ ~o.trashed}

\* The remote's answer to  '<id>' in parents and trashed=false.
Children(fs, parent_id) ==
    {o \in fs : o.parent = parent_id /\ ~o.trashed}

\* Mutant of First: files[-1].
Newest(S) == CHOOSE o \in S : \A p \in S : o.id >= p.id

\* files[0]: the remote lists in the order of its ids.
First(S) == CHOOSE o \in S : \A p \in S : o.id <= p.id

RECURSIVE Descendants(_, _)
Descendants(fs, ids) ==
    LET more == {o.id : o \in {x \in fs : x.parent \in ids}} \ ids
    IN  IF more = {} THEN ids ELSE Descendants(fs, ids \cup more)

Exists(fs, id) == \E o \in fs : o.id = id

\* ------------------------------------------------------------------- paths
\* Mutant of IsRoot: no path is taken for the root path.
IsRootNever(path) == FALSE

IsRoot(path) == path = <<>>

\* path.strip('/').split('/'): the root path splits into one empty segment.
Parts(path) == IF path = <<>> THEN <<"">> ELSE path

\* Mutant of Leaf: parts[0] for parts[-1].
LeafFirst(path) == Parts(path)[1]

\* parts[-1]
Leaf(path) == Parts(path)[Len(Parts(path))]

\* Mutant of ParentPath: the parent of every path is the root.
ParentPathRoot(path) == <<>>

\* '/' + '/'.join(parts[:-1]) if len(parts) > 1 else '/'
ParentPath(path) ==
    IF Len(Parts(path)) > 1 THEN SubSeq(path, 1, Len(path) - 1) ELSE <<>>

\* ----------------------------------------------------------------- results
Pending == [kind |-> "pending", ok |-> FALSE, stat |-> NoNode, list |-> {}, bytes |-> <<>>]
Raised == [Pending EXCEPT !.kind = "raise"]
RetNone == [Pending EXCEPT !.kind = "none"]
RetBool(b) == [Pending EXCEPT !.kind = "bool", !.ok = b]
RetStat(st) == [Pending EXCEPT !.kind = "stat", !.stat = st]
RetList(l) == [Pending EXCEPT !.kind = "list", !.list = l]
RetBytes(b) == [Pending EXCEPT !.kind = "bytes", !.bytes = b]

\* The remote calls of one adapter call; `unique`: sibling names were unique
\* in the store its mutating call met.
NoCalls == [lookups |-> 0, other |-> 0, mutation |-> "none", target |-> NoId,
            name |-> "", parent |-> NoId, failed |-> FALSE, unique |-> TRUE]

NoOp == [kind |-> "none", path |-> <<>>, content |-> <<>>, new_path |-> <<>>]

\* History of a session: its previous call when that was a write, a stat, a
\* mkdir or a delete,
\* and `created`: the id the call before that created, when both were
\* writes of the same path and that one succeeded.
\* The kinds of call a session remembers as its previous call.
Remembered == {"write", "stat", "mkdir", "delete"}

NoPrev == [op |-> NoOp, result |-> Pending, calls |-> NoCalls, created |-> NoId]

\* ------------------------------------------------------------ get_file_stats
\* datetime.fromisoformat(s.replace('Z', '+00:00')).timestamp(): the epoch
\* seconds of the instant a UTC time string denotes.
ParseTime(s) == s.sec

\* time.time()
TimeNow(clock) == clock

\* Mutant of Stat: mtime is always the current time.
StatClock(info, clock) ==
    [size |-> IF info.mimeType = FOLDER \/ info.size = NoId THEN 0
              ELSE info.size,
     mtime |-> TimeNow(clock), isdir |-> info.mimeType = FOLDER,
     name |-> info.name, id |-> info.id]

\* get_file_stats, lines 90-106, on a resolved file_info.
Stat(info, clock) ==
    LET is_dir == info.mimeType = FOLDER
        size == IF is_dir THEN 0
                ELSE IF info.size = NoId THEN 0 ELSE info.size
        mtime_str == IF info.modifiedTime # NoTime THEN info.modifiedTime
                     ELSE info.createdTime
        mtime == IF mtime_str # NoTime THEN ParseTime(mtime_str)
                 ELSE TimeNow(clock)
    IN  [size |-> size, mtime |-> mtime, isdir |-> is_dir,
         name |-> info.name, id |-> info.id]

\* ------------------------------------------------------ _escape_query_value
\* A string is the list of its characters.
BS == "\\"
QUOTE == "'"
Chars == {BS, QUOTE, "a"}

\* The segment strings of at most MaxSegmentLen characters.
Segments == UNION {[1..n -> Chars] : n \in 0..MaxSegmentLen}

\* value.replace(old, new) for a one-character old.
RECURSIVE Replace(_, _, _)
Replace(value, old, new) ==
    IF value = <<>> THEN <<>>
    ELSE (IF Head(value) = old THEN new ELSE <<Head(value)>>)
         \o Replace(Tail(value), old, new)

\* Mutant of escape_query_value: the two replacements in the other order.
EscapeQuotesFirst(value) ==
    Replace(Replace(value, QUOTE, <<BS, QUOTE>>), BS, <<BS, BS>>)

\* _escape_query_value, lines 26-28.
escape_query_value(value) ==
    Replace(Replace(value, BS, <<BS, BS>>), QUOTE, <<BS, QUOTE>>)

\* The query text after the quoted name (parent_id being 'root').
QueryTail == <<QUOTE, " and 'root' in parents and trashed=false">>

\* Line 40: query = f"name='{escaped_part}' and '{parent_id}' in parents and
\* trashed=false".
BuildQuery(escaped_part) == <<"name=", QUOTE>> \o escaped_part \o QueryTail

\* The remote reads a quoted literal from `text`, which follows the opening
\* quote: a backslash takes the next character as it is, the first quote
\* that no backslash precedes ends the literal.  `closed` is FALSE when the
\* text ends before the literal does.
RECURSIVE ReadLiteral(_, _)
ReadLiteral(text, name) ==
    IF text = <<>> THEN [name |-> name, rest |-> <<>>, closed |-> FALSE]
    ELSE IF Head(text) = QUOTE
    THEN [name |-> name, rest |-> text, closed |-> TRUE]
    ELSE IF Head(text) = BS
    THEN IF Len(text) = 1
         THEN [name |-> name, rest |-> <<>>, closed |-> FALSE]
         ELSE ReadLiteral(Tail(Tail(text)), Append(name, text[2]))
    ELSE ReadLiteral(Tail(text), Append(name, Head(text)))

\* No lookup query is being built.
NotEscaping ==
    [pc |-> "none", part |-> <<>>, escaped_part |-> <<>>, query |-> <<>>,
     asked |-> [name |-> <<>>, rest |-> <<>>, closed |-> FALSE]]

\* ------------------------------------------------------------------ main()
MinPort == 1
MaxPort == 65535
DefaultPort == 2121

\* Values of FTP_PORT in the environment: a decimal number, or text that
\* int() does not parse.
PortInputs == {0, 1, 65535, 65536}
PortTexts ==
    {[numeric |-> TRUE, value |-> v] : v \in PortInputs}
        \cup {[numeric |-> FALSE, value |-> 0]}

\* The environments main() may start in: whether the credentials file
\* exists, and the settings of port, username and password.
Envs ==
    [credentials_exists : BOOLEAN, FTP_PORT : PortTexts,
     FTP_USERNAME : {"", "admin"}, FTP_PASSWORD : {"", "admin123"}]

\* The environment with the defaults of Config.__init__ and the credentials
\* file in place.
DefaultEnv ==
    [credentials_exists |-> TRUE,
     FTP_PORT |-> [numeric |-> TRUE, value |-> DefaultPort],
     FTP_USERNAME |-> "admin", FTP_PASSWORD |-> "admin123"]

\* The attributes Config.__init__ sets.
ConfigAttrs ==
    {"ftp_host", "ftp_port", "ftp_username", "ftp_password",
     "ftp_max_connections", "ftp_max_connections_per_ip", "ftp_root_path",
     "ftp_passive_address", "ftp_passive_ports", "credentials_file",
     "token_file", "log_level", "log_file", "cache_enabled", "cache_timeout"}

NoConfig == [ftp_port |-> NoId, ftp_username |-> "", ftp_password |-> ""]

\* Config.__init__: the settings validate() looks at.
Config(e) ==
    [ftp_port |-> e.FTP_PORT.value, ftp_username |-> e.FTP_USERNAME,
     ftp_password |-> e.FTP_PASSWORD]

\* Mutant of validate: the port is not looked at.
ValidateNoPort(config, e) ==
    (IF ~e.credentials_exists THEN <<"credentials">> ELSE <<>>)
    \o (IF config.ftp_username = "" \/ config.ftp_password = ""
        THEN <<"login">> ELSE <<>>)

\* Config.validate: the list of errors.
validate(config, e) ==
    (IF ~e.credentials_exists THEN <<"credentials">> ELSE <<>>)
    \o (IF ~(MinPort <= config.ftp_port /\ config.ftp_port <= MaxPort)
        THEN <<"port">> ELSE <<>>)
    \o (IF config.ftp_username = "" \/ config.ftp_password = ""
        THEN <<"login">> ELSE <<>>)

\* The process before main() runs.
NotStarted ==
    [pc |-> "start", config |-> NoConfig, errors |-> <<>>,
     authenticated |-> FALSE, code |-> NoId]

\* The process while the protocol layer serves sessions.
Serving ==
    [pc |-> "serving", config |-> Config(DefaultEnv), errors |-> <<>>,
     authenticated |-> TRUE, code |-> NoId]

\* -------------------------------------------------------------------- Init
Started ==
    /\ files \in InitStores \cup {CycleStore}
    /\ nextId = 1 + Cardinality(files)
    /\ now = 0
    /\ cache = {}
    /\ budget = MaxOps
    /\ pc = [s \in Sessions |-> "idle"]
    /\ op = [s \in Sessions |-> NoOp]
    /\ walk = [s \in Sessions |-> [i |-> 1, parent_id |-> RootId]]
    /\ file_info = [s \in Sessions |-> NoNode]
    /\ parent_info = [s \in Sessions |-> NoNode]
    /\ fh = [s \in Sessions |-> <<>>]
    /\ result = [s \in Sessions |-> Pending]
    /\ calls = [s \in Sessions |-> NoCalls]
    /\ prev = [s \in Sessions |-> NoPrev]
    /\ undisturbed = [s \in Sessions |-> TRUE]

\* The adapter under a protocol layer that serves sessions.
Hosted == env = DefaultEnv /\ main = Serving /\ esc = NotEscaping

\* The parent links of the store form a tree.
WellFormed == files \in InitStores

\* One client: the adapter calls follow each other.
Init == Started /\ WellFormed /\ Hosted /\ callers = {1} /\ paths = PathInputs

\* One client, on a store whose parent links form a cycle.
InitCyclic ==
    Started /\ files = CycleStore /\ Hosted /\ callers = {1} /\ paths = PathInputs

\* Two clients whose adapter calls overlap.
InitConcurrent ==
    /\ Started /\ WellFormed /\ Hosted
    /\ callers = Sessions /\ paths = ConcurrentPaths

\* The process is started: no session is connected.
InitStartup ==
    /\ Started /\ WellFormed
    /\ env \in Envs /\ main = NotStarted /\ callers = {} /\ paths = {}
    /\ esc = NotEscaping

\* One iteration of the lookup loop, for any segment string.
InitEscape ==
    /\ Started /\ files = EmptyStore
    /\ env = DefaultEnv /\ main = Serving /\ callers = {} /\ paths = {}
    /\ \E part \in Segments :
         esc = [NotEscaping EXCEPT !.pc = "escape", !.part = part]

\* ------------------------------------------------------------ adapter calls
\* The path the running _get_file_by_path call of session s resolves.
Resolving(s) ==
    IF pc[s] = "resolve_parent" THEN ParentPath(op[s].path) ELSE op[s].path

\* The first statement of each adapter method: which path it resolves first.
FirstPc(kind) ==
    IF kind \in {"write", "mkdir"} THEN "resolve_parent" ELSE "resolve"

\* The protocol layer invokes one adapter operation.
Call(s) ==
    /\ s \in callers
    /\ main.pc = "serving"
    /\ pc[s] = "idle"
    /\ budget > 0
    /\ \E kind \in OpKinds, path \in paths :
        \E content \in (IF kind = "write" THEN Payloads ELSE {<<>>}),
           new_path \in (IF kind = "rename" THEN NewPathInputs ELSE {<<>>}) :
            /\ op' = [op EXCEPT ![s] = [kind |-> kind, path |-> path,
                                        content |-> content,
                                        new_path |-> new_path]]
            /\ pc' = [pc EXCEPT ![s] = FirstPc(kind)]
            /\ prev' = [prev EXCEPT ![s] =
                  IF op[s].kind \notin Remembered THEN NoPrev ELSE
                  [op |-> op[s], result |-> result[s], calls |-> calls[s],
                   created |->
                      IF /\ op[s].kind = "write"
                         /\ prev[s].op.kind = "write"
                         /\ prev[s].op.path = op[s].path
                         /\ prev[s].result = RetBool(TRUE)
                         /\ prev[s].calls.mutation = "create"
                      THEN prev[s].calls.target ELSE NoId]]
    /\ budget' = budget - 1
    /\ walk' = [walk EXCEPT ![s] = [i |-> 1, parent_id |-> RootId]]
    /\ file_info' = [file_info EXCEPT ![s] = NoNode]
    /\ parent_info' = [parent_info EXCEPT ![s] = NoNode]
    /\ fh' = [fh EXCEPT ![s] = <<>>]
    /\ result' = [result EXCEPT ![s] = Pending]
    /\ calls' = [calls EXCEPT ![s] = NoCalls]
    /\ undisturbed' = [undisturbed EXCEPT ![s] = TRUE]
    /\ UNCHANGED <<files, nextId, now, cache, callers, paths, env, main, esc>>

\* The method returns (or an exception leaves it).
Return(s, r) ==
    /\ pc' = [pc EXCEPT ![s] = "idle"]
    /\ result' = [result EXCEPT ![s] = r]

\* Mutant of WriteBranch: no check for an existing file.
WriteAlwaysCreates(existing_file) == "create_file"

\* write_file, lines 143-151: update the existing file or create a new one.
WriteBranch(existing_file) ==
    IF existing_file # NoNode THEN "update_media" ELSE "create_file"

\* What the caller of _get_file_by_path does with its answer `info`
\* (NoNode for None): the early returns of each method, or the remote call
\* it goes on to.
Resolved(s, info) ==
    LET kind == op[s].kind
        missing == info = NoNode
        is_dir == info.mimeType = FOLDER
    IN
    IF pc[s] = "resolve_parent"
    THEN \* write_file 132-134, create_directory 180-182
         /\ parent_info' = [parent_info EXCEPT ![s] = info]
         /\ file_info' = file_info
         /\ walk' = [walk EXCEPT ![s] = [i |-> 1, parent_id |-> RootId]]
         /\ IF missing THEN Return(s, RetBool(FALSE))
            ELSE /\ pc' = [pc EXCEPT ![s] =
                       IF kind = "write" THEN "resolve" ELSE "create_folder"]
                 /\ result' = result
    ELSE /\ file_info' = [file_info EXCEPT ![s] = info]
         /\ parent_info' = parent_info
         /\ walk' = walk
         /\ CASE kind = "stat" ->            \* 86-106
                    Return(s, IF missing THEN RetNone
                              ELSE RetStat(Stat(info, now)))
              [] kind = "list" ->            \* 68-73
                    IF missing \/ ~is_dir THEN Return(s, RetList({}))
                    ELSE pc' = [pc EXCEPT ![s] = "list_children"]
                         /\ result' = result
              [] kind = "read" ->            \* 110-112
                    IF missing \/ is_dir THEN Return(s, RetNone)
                    ELSE pc' = [pc EXCEPT ![s] = "download"]
                         /\ result' = result
              [] kind = "write" ->           \* 137-151
                    /\ pc' = [pc EXCEPT ![s] = WriteBranch(info)]
                    /\ result' = result
              [] kind = "delete" ->          \* 164-166
                    IF missing THEN Return(s, RetBool(FALSE))
                    ELSE pc' = [pc EXCEPT ![s] = "delete"]
                         /\ result' = result
              [] kind = "rename" ->          \* 198-200
                    IF missing THEN Return(s, RetBool(FALSE))
                    ELSE pc' = [pc EXCEPT ![s] = "update_name"]
                         /\ result' = result

\* One iteration of the loop of _get_file_by_path (lines 38-51): one
\* files().list call.  An HttpError it raises is caught nowhere.
Lookup(s) ==
    /\ pc[s] \in {"resolve_parent", "resolve"}
    /\ ~IsRoot(Resolving(s))
    /\ LET parts == Parts(Resolving(s))
           found == Query(files, parts[walk[s].i], walk[s].parent_id)
       IN  \E err \in BOOLEAN :
            /\ calls' = [calls EXCEPT ![s].lookups = @ + 1, ![s].failed = err]
            /\ IF err
               THEN /\ Return(s, Raised)
                    /\ UNCHANGED <<walk, file_info, parent_info>>
               ELSE IF found = {}
               THEN Resolved(s, NoNode)
               ELSE IF walk[s].i = Len(parts)
               THEN Resolved(s, Meta(First(found)))
               ELSE /\ walk' = [walk EXCEPT ![s] =
                           [i |-> @.i + 1, parent_id |-> First(found).id]]
                    /\ UNCHANGED <<pc, result, file_info, parent_info>>
    /\ UNCHANGED <<files, nextId, fh, undisturbed, others>>

\* _get_file_by_path of the root path (lines 32-33): no remote call.
ResolveRoot(s) ==
    /\ pc[s] \in {"resolve_parent", "resolve"}
    /\ IsRoot(Resolving(s))
    /\ Resolved(s, RootNode)
    /\ UNCHANGED <<files, nextId, fh, calls, undisturbed, others>>

\* list_directory, lines 75-82.
ListChildren(s) ==
    /\ pc[s] = "list_children"
    /\ \E err \in BOOLEAN :
        /\ calls' = [calls EXCEPT ![s].other = @ + 1, ![s].failed = err]
        /\ Return(s, IF err THEN Raised
                     ELSE RetList({Meta(o) : o \in Children(files, file_info[s].id)}))
    /\ UNCHANGED <<files, nextId, walk, file_info, parent_info, fh,
                   undisturbed, others>>

\* read_file, lines 114-123: one downloader.next_chunk().  A chunk past the
\* end of the content, or of an object that is gone, is an HttpError.
Download(s) ==
    /\ pc[s] = "download"
    /\ LET id == file_info[s].id
           gone == ~Exists(files, id)
           data == (CHOOSE o \in files : o.id = id).content
           off == Len(fh[s])
           last == IF off + ChunkLen < Len(data) THEN off + ChunkLen
                   ELSE Len(data)
       IN  \E err \in (IF gone THEN {TRUE} ELSE BOOLEAN) :
            LET bad == err \/ (off > 0 /\ off >= Len(data))
                buf == fh[s] \o SubSeq(data, off + 1, last)
            IN  /\ calls' = [calls EXCEPT ![s].other = @ + 1, ![s].failed = bad]
                /\ IF bad THEN Return(s, Raised) /\ fh' = fh
                   ELSE IF last = Len(data)
                   THEN Return(s, RetBytes(buf)) /\ fh' = [fh EXCEPT ![s] = buf]
                   ELSE /\ fh' = [fh EXCEPT ![s] = buf]
                        /\ UNCHANGED <<pc, result>>
    /\ UNCHANGED <<files, nextId, walk, file_info, parent_info, undisturbed,
                   others>>

\* ------------------------------------------------- the remote's mutations
\* Mutant of RemoteUpdateMedia: the update call without its media_body.
RemoteUpdateNoMedia(fs, id, content, clock) ==
    {IF o.id = id THEN [o EXCEPT !.modifiedTime = TimeStr(clock)] ELSE o :
        o \in fs}

\* files().update(fileId, media_body): new content, new modifiedTime.
RemoteUpdateMedia(fs, id, content, clock) ==
    {IF o.id = id
     THEN [o EXCEPT !.content = content, !.modifiedTime = TimeStr(clock)]
     ELSE o : o \in fs}

\* Mutant of RemoteUpdateName: a rename that also moves the object (to the
\* root folder).
RemoteUpdateNameAndParent(fs, id, new_name, clock) ==
    {IF o.id = id
     THEN [o EXCEPT !.name = new_name, !.parent = RootId,
                    !.modifiedTime = TimeStr(clock)]
     ELSE o : o \in fs}

\* files().update(fileId, body={'name': new_name}).
RemoteUpdateName(fs, id, new_name, clock) ==
    {IF o.id = id
     THEN [o EXCEPT !.name = new_name, !.modifiedTime = TimeStr(clock)]
     ELSE o : o \in fs}

\* Mutant of RemoteCreate: the create call without its media_body.
RemoteCreateNoMedia(fs, id, name, mime, parent, content, clock) ==
    fs \cup {Obj(id, name, mime, parent, <<>>, TimeStr(clock),
                 TimeStr(clock), FALSE)}

\* files().create(body, media_body).
RemoteCreate(fs, id, name, mime, parent, content, clock) ==
    fs \cup {Obj(id, name, mime, parent, content, TimeStr(clock),
                 TimeStr(clock), FALSE)}

\* Mutant of RemoteDelete: the whole store is emptied.
RemoteDeleteAll(fs, id) == {}

\* files().delete(fileId): the object and, for a folder, all it contains.
RemoteDelete(fs, id) ==
    {o \in fs : o.id \notin Descendants(fs, {id})}

\* Whether the remote can carry out a call on object `id` at all: the root
\* alias is immutable and an id that is gone answers 404.
Mutable(fs, id) == id # RootId /\ Exists(fs, id)

\* Whether the remote can create a child of `parent`: the quota is not used
\* up and the parent is there.
Creatable(fs, parent, id) ==
    id <= MaxObjects /\ (parent = RootId \/ Exists(fs, parent))

\* The outcomes of a mutating remote call, TRUE for an HttpError: a call
\* the remote cannot carry out fails, any other call may fail.
Errors(possible) == IF possible THEN BOOLEAN ELSE {TRUE}

\* The bookkeeping of a mutating remote call of session s, and its
\* try/except: True, or False on HttpError.
Mutation(s, what, id, name, parent, err) ==
    /\ calls' = [calls EXCEPT ![s].mutation = what, ![s].target = id,
                              ![s].name = name, ![s].parent = parent,
                              ![s].failed = err,
                              ![s].unique = \A x \in files, y \in files :
                                  ( /\ ~x.trashed /\ ~y.trashed
                                    /\ x.parent = y.parent
                                    /\ x.name = y.name ) => x.id = y.id]
    /\ undisturbed' = [t \in Sessions |-> undisturbed[t] /\ err]
    /\ Return(s, RetBool(~err))
    /\ UNCHANGED <<walk, file_info, parent_info, fh, others>>

\* write_file, lines 143-148: update the existing file.
UpdateMedia(s) ==
    /\ pc[s] = "update_media"
    /\ LET id == file_info[s].id
       IN  \E err \in Errors(Mutable(files, id)) :
            /\ Mutation(s, "update_media", id, "", NoId, err)
            /\ files' = IF err THEN files
                        ELSE RemoteUpdateMedia(files, id, op[s].content, now)
    /\ UNCHANGED nextId

\* write_file, lines 149-156: create a new file under the parent.
CreateFile(s) ==
    /\ pc[s] = "create_file"
    /\ LET filename == Leaf(op[s].path)
           parent == parent_info[s].id
       IN  \E err \in Errors(Creatable(files, parent, nextId)) :
            /\ Mutation(s, "create", IF err THEN NoId ELSE nextId, filename,
                        parent, err)
            /\ files' = IF err THEN files
                        ELSE RemoteCreate(files, nextId, filename, BINARY,
                                          parent, op[s].content, now)
            /\ nextId' = IF err THEN nextId ELSE nextId + 1

\* delete_file, lines 168-172.
Delete(s) ==
    /\ pc[s] = "delete"
    /\ LET id == file_info[s].id
       IN  \E err \in Errors(Mutable(files, id)) :
            /\ Mutation(s, "delete", id, "", NoId, err)
            /\ files' = IF err THEN files ELSE RemoteDelete(files, id)
    /\ UNCHANGED nextId

\* create_directory, lines 184-194.
CreateFolder(s) ==
    /\ pc[s] = "create_folder"
    /\ LET dirname == Leaf(op[s].path)
           parent == parent_info[s].id
       IN  \E err \in Errors(Creatable(files, parent, nextId)) :
            /\ Mutation(s, "create", IF err THEN NoId ELSE nextId, dirname,
                        parent, err)
            /\ files' = IF err THEN files
                        ELSE RemoteCreate(files, nextId, dirname, FOLDER,
                                          parent, <<>>, now)
            /\ nextId' = IF err THEN nextId ELSE nextId + 1

\* rename_file, lines 202-211.
UpdateName(s) ==
    /\ pc[s] = "update_name"
    /\ LET id == file_info[s].id
           new_name == Leaf(op[s].new_path)
       IN  \E err \in Errors(Mutable(files, id)) :
            /\ Mutation(s, "update_name", id, new_name, NoId, err)
            /\ files' = IF err THEN files
                        ELSE RemoteUpdateName(files, id, new_name, now)
    /\ UNCHANGED nextId

\* The wall clock advances (observed between adapter calls).
Tick ==
    /\ now < MaxClock
    /\ \A s \in Sessions : pc[s] = "idle"
    /\ now' = now + 1
    /\ UNCHANGED <<files, nextId, cache, budget, callers, paths, pc, op,
                   walk, file_info, parent_info, fh, result, calls, prev,
                   undisturbed, env, main, esc>>

Step(s) ==
    \/ Call(s)
    \/ Lookup(s)
    \/ ResolveRoot(s)
    \/ ListChildren(s)
    \/ Download(s)
    \/ UpdateMedia(s)
    \/ CreateFile(s)
    \/ Delete(s)
    \/ CreateFolder(s)
    \/ UpdateName(s)

Next == Tick \/ \E s \in Sessions : Step(s)

Spec == Init /\ [][Next]_vars

SpecConcurrent == InitConcurrent /\ [][Next]_vars

SpecCyclic == InitCyclic /\ [][Next]_vars

\* --------------------------------------------------------- steps of main()
\* What a step of main() leaves alone.
adapter == <<files, nextId, now, cache, budget, callers, paths, pc, op, walk,
             file_info, parent_info, fh, result, calls, prev, undisturbed,
             env, esc>>

\* The process ends: sys.exit(code), or an uncaught exception ("crashed").
Exit(how, code) == [main EXCEPT !.pc = how, !.code = code]

\* main.py line 20, Config(): int() of a port that is no number raises
\* ValueError, which nothing catches.
LoadConfig ==
    /\ main.pc = "start"
    /\ main' = IF env.FTP_PORT.numeric
               THEN [main EXCEPT !.pc = "validate", !.config = Config(env)]
               ELSE Exit("crashed", 1)
    /\ UNCHANGED adapter

\* main.py lines 30-44: validate the configuration, exit on errors.
ValidateConfig ==
    /\ main.pc = "validate"
    /\ LET errors == validate(main.config, env)
       IN  main' = IF errors # <<>>
                   THEN [Exit("exited", 1) EXCEPT !.errors = errors]
                   ELSE [main EXCEPT !.pc = "authenticate"]
    /\ UNCHANGED adapter

\* main.py lines 53-61: authenticate with the remote store; any exception
\* ends the process.
Authenticate ==
    /\ main.pc = "authenticate"
    /\ \E failed \in BOOLEAN :
        main' = IF failed THEN Exit("exited", 1)
                ELSE [main EXCEPT !.pc = "start_server",
                                  !.authenticated = TRUE]
    /\ UNCHANGED adapter

\* main.py lines 64-89: the log line of line 64 reads config.sftp_host,
\* outside the try block; an attribute Config does not set is an
\* AttributeError.  Else the server is created and serves.
StartServer ==
    /\ main.pc = "start_server"
    /\ main' = IF "sftp_host" \in ConfigAttrs
               THEN [main EXCEPT !.pc = "serving"]
               ELSE Exit("crashed", 1)
    /\ UNCHANGED adapter

NextStartup == LoadConfig \/ ValidateConfig \/ Authenticate \/ StartServer

SpecStartup == InitStartup /\ [][NextStartup]_vars

\* ----------------------------------------------- one lookup, as query text
\* What a step of the query building leaves alone.
rest == <<files, nextId, now, cache, budget, callers, paths, pc, op, walk,
          file_info, parent_info, fh, result, calls, prev, undisturbed,
          env, main>>

\* Line 39: escaped_part = self._escape_query_value(part).
EscapePart ==
    /\ esc.pc = "escape"
    /\ esc' = [esc EXCEPT !.pc = "build",
                          !.escaped_part = escape_query_value(esc.part)]
    /\ UNCHANGED rest

\* Line 40: the query string.
FormatQuery ==
    /\ esc.pc = "build"
    /\ esc' = [esc EXCEPT !.pc = "ask", !.query = BuildQuery(esc.escaped_part)]
    /\ UNCHANGED rest

\* Lines 41-44: the remote reads the name literal of the query.
AskRemote ==
    /\ esc.pc = "ask"
    /\ esc' = [esc EXCEPT !.pc = "asked",
                          !.asked = ReadLiteral(SubSeq(esc.query, 3,
                                                       Len(esc.query)), <<>>)]
    /\ UNCHANGED rest

NextEscape == EscapePart \/ FormatQuery \/ AskRemote

SpecEscape == InitEscape /\ [][NextEscape]_vars

\* ================================================================== claims
\* What the store holds at a path, stated on the store alone: the ids of the
\* non-trashed objects whose chain of parents spells the path from the root.
RECURSIVE DenotedIds(_, _)
DenotedIds(fs, path) ==
    IF path = <<>> THEN {RootId}
    ELSE LET above == DenotedIds(fs, SubSeq(path, 1, Len(path) - 1))
         IN  {o.id : o \in {x \in fs : /\ ~x.trashed
                                       /\ x.name = path[Len(path)]
                                       /\ x.parent \in above}}

\* No two non-trashed objects share parent and name.
NoDuplicates(fs) ==
    \A x \in fs, y \in fs :
        (~x.trashed /\ ~y.trashed /\ x.parent = y.parent /\ x.name = y.name)
            => x.id = y.id

Ids(fs) == {o.id : o \in fs}

Done(s, kind) == pc[s] = "idle" /\ op[s].kind = kind

Ok(r) == r = RetBool(TRUE)

\* C1: the remote call of rename(oldPath, newPath) targets the object found
\* at oldPath and changes nothing but that object's name, which becomes
\* the last segment of newPath on success: its parent, type and content
\* stay, and every other object stays as it was.
C1_RenameChangesOnlyTheName ==
    [][\A s \in Sessions :
        (pc[s] = "update_name" /\ pc'[s] = "idle") =>
            LET id == calls'[s].target
            IN  /\ id \in DenotedIds(files, op[s].path)
                /\ Ids(files') = Ids(files)
                /\ \A o \in files : o.id # id => o \in files'
                /\ \A o \in files : o.id = id =>
                     \E n \in files' :
                        /\ n.id = id
                        /\ n.parent = o.parent
                        /\ n.content = o.content
                        /\ n.mimeType = o.mimeType
                        /\ n.name = IF Ok(result'[s])
                                    THEN Leaf(op[s].new_path) ELSE o.name
      ]_vars

\* C1 witness: a rename to a path in another directory succeeded; the
\* object carries the new leaf name and is still in the old directory.
C1_Witness ==
    \E s \in Sessions :
        /\ Done(s, "rename") /\ Ok(result[s])
        /\ ParentPath(op[s].path) # ParentPath(op[s].new_path)
        /\ \E o \in files :
            /\ o.id = calls[s].target
            /\ o.name = Leaf(op[s].new_path)
            /\ o.parent # RootId
            /\ o.parent \in DenotedIds(files, ParentPath(op[s].path))

\* C2: the mutating call of writeFile(path, content) is decided by what is
\* at the path: an update of an object that is at the path, which leaves the
\* set of objects and every other object as they were, or - when the
\* resolved parent has no child of that name - the creation of exactly one
\* object, of that name, under the resolved parent; an empty path is never
\* updated and, sibling names being unique, an occupied one never created.
C2_WriteUpdatesOrCreates ==
    [][\A s \in Sessions :
        (pc[s] \in {"update_media", "create_file"} /\ pc'[s] = "idle") =>
            LET c == calls'[s]
                path == op[s].path
                at_path == DenotedIds(files, path)
            IN  /\ at_path = {} => c.mutation = "create"
                /\ (at_path # {} /\ NoDuplicates(files))
                      => c.mutation = "update_media"
                /\ c.mutation = "update_media" =>
                     /\ c.target \in at_path
                     /\ Ids(files') = Ids(files)
                     /\ \A o \in files : o.id # c.target => o \in files'
                     /\ Ok(result'[s]) =>
                          \A n \in files' :
                              n.id = c.target => n.content = op[s].content
                /\ c.mutation = "create" =>
                     /\ c.name = Leaf(path)
                     /\ c.parent \in DenotedIds(files, ParentPath(path))
                     /\ \A o \in files :
                          ~(o.parent = c.parent /\ o.name = c.name /\ ~o.trashed)
                     /\ files \subseteq files'
                     /\ IF Ok(result'[s])
                        THEN \E n \in files' :
                               /\ files' \ files = {n}
                               /\ n.name = Leaf(path)
                               /\ n.parent = c.parent
                               /\ n.content = op[s].content
                        ELSE files' = files
      ]_vars

\* C2 witness: a write created the object at a path and the next write of
\* that path updated it.
C2_Witness ==
    \E s \in Sessions :
        /\ Done(s, "write") /\ Ok(result[s])
        /\ calls[s].mutation = "update_media"
        /\ prev[s].op.kind = "write" /\ prev[s].op.path = op[s].path
        /\ Ok(prev[s].result) /\ prev[s].calls.mutation = "create"
        /\ calls[s].target = prev[s].calls.target

\* A session's read of a path has returned, right after its successful write
\* of that path.
ReadAfterWrite(s) ==
    /\ Done(s, "read") /\ result[s].kind # "raise"
    /\ prev[s].op.kind = "write" /\ prev[s].op.path = op[s].path
    /\ Ok(prev[s].result)

\* The object a write went to is a folder (or the root).
WroteFolder(w) ==
    \/ w.calls.target = RootId
    \/ \E o \in files : o.id = w.calls.target /\ o.mimeType = FOLDER

\* C3 as claimed: a read right after a successful write of the same path
\* returns the bytes written, whatever the path.
C3_RoundTripAnyPath ==
    \A s \in Sessions :
        ReadAfterWrite(s) => result[s] = RetBytes(prev[s].op.content)

\* C3 amended: a read right after a successful write of the same path
\* returns the bytes written, when the path is not that of a directory.
C3_RoundTripOfFiles ==
    \A s \in Sessions :
        (ReadAfterWrite(s) /\ ~WroteFolder(prev[s]))
            => result[s] = RetBytes(prev[s].op.content)

\* C3 witness: the round trip through an object the write overwrote.
C3_Witness ==
    \E s \in Sessions :
        /\ ReadAfterWrite(s) /\ ~WroteFolder(prev[s])
        /\ prev[s].calls.mutation = "update_media"
        /\ result[s] = RetBytes(prev[s].op.content)

\* C4: after two successful writes of a path in a row, of which the first
\* created the object, the second has updated that object (no second object
\* of that name is in its folder), and a read of the path that follows
\* returns the second payload.
C4_SecondWriteUpdatesAndReadIsFresh ==
    \A s \in Sessions :
        /\ ( /\ Done(s, "write") /\ Ok(result[s])
             /\ prev[s].op.kind = "write" /\ prev[s].op.path = op[s].path
             /\ Ok(prev[s].result) /\ prev[s].calls.mutation = "create" )
           => /\ calls[s].mutation = "update_media"
              /\ calls[s].target = prev[s].calls.target
        /\ (ReadAfterWrite(s) /\ prev[s].created # NoId)
           => /\ prev[s].calls.mutation = "update_media"
              /\ prev[s].calls.target = prev[s].created
              /\ \A o \in files, n \in files :
                    ( /\ o.id = prev[s].created /\ ~n.trashed
                      /\ n.parent = o.parent /\ n.name = o.name ) => n.id = o.id
              /\ result[s] = RetBytes(prev[s].op.content)

\* C4 witness: write, write, read of one path, the object created by the
\* first write.
C4_Witness ==
    \E s \in Sessions :
        /\ ReadAfterWrite(s) /\ prev[s].created # NoId
        /\ result[s] = RetBytes(prev[s].op.content)

\* What a stat result says about the store: None when nothing is at the
\* path (sibling names being unique), else the id, name, type, size and
\* modification time of an object that is at the path.
Reflects(fs, path, r) ==
    IF r.kind = "none" THEN NoDuplicates(fs) => DenotedIds(fs, path) = {}
    ELSE /\ r.kind = "stat"
         /\ r.stat.id \in DenotedIds(fs, path)
         /\ r.stat.id = RootId =>
               r.stat.name = "/" /\ r.stat.isdir /\ r.stat.size = 0
         /\ \A o \in fs : o.id = r.stat.id =>
               /\ r.stat.name = o.name
               /\ r.stat.isdir = (o.mimeType = FOLDER)
               /\ r.stat.size = IF o.mimeType = FOLDER THEN 0
                                ELSE Len(o.content)
               /\ o.modifiedTime # NoTime =>
                     r.stat.mtime = o.modifiedTime.sec

\* C5: the resolution cache never holds an entry, and a stat that ran with
\* no store change since it started - so every stat that starts after a
\* mutating call has returned, whatever the session - reports the store as
\* the mutation left it.
C5_StatSeesTheStoreAfterMutation ==
    /\ cache = {}
    /\ \A s \in Sessions :
        (Done(s, "stat") /\ result[s].kind # "raise" /\ undisturbed[s])
            => Reflects(files, op[s].path, result[s])

\* C5 witness: one session's mkdir of a path succeeded, then another
\* session's stat of that path reported the new folder.
C5_Witness ==
    \E s \in Sessions, t \in Sessions :
        /\ s # t
        /\ Done(t, "mkdir") /\ Ok(result[t])
        /\ Done(s, "stat") /\ op[s].path = op[t].path /\ undisturbed[s]
        /\ result[s].kind = "stat" /\ result[s].stat.id = calls[t].target
        /\ result[s].stat.isdir

\* A session's stat of a path has returned, right after its stat of the
\* same path, within the cache timeout.
StatAfterStat(s) ==
    /\ Done(s, "stat") /\ result[s].kind # "raise"
    /\ prev[s].op.kind = "stat" /\ prev[s].op.path = op[s].path
    /\ prev[s].result.kind # "raise"
    /\ TimeNow(now) - TimeNow(0) < cache_timeout

\* The object a stat result is about carries a modification or creation
\* timestamp (the synthetic root node carries none).
Timestamped(r) ==
    /\ r.stat.id # RootId
    /\ \A o \in files : o.id = r.stat.id =>
          o.modifiedTime # NoTime \/ o.createdTime # NoTime

\* C6 as claimed: two stats of a path in a row return identical results,
\* whatever the path.
C6_StatIdempotentAnyPath ==
    \A s \in Sessions : StatAfterStat(s) => result[s] = prev[s].result

\* C6 amended: two stats of a path in a row return identical results when
\* nothing is at the path or the object there carries a timestamp.
C6_StatIdempotentWithTimestamp ==
    \A s \in Sessions :
        (StatAfterStat(s) /\ (result[s].kind = "none" \/ Timestamped(result[s])))
            => result[s] = prev[s].result

\* C6 witness: the second of two equal stats of a timestamped object, taken
\* when the clock is past the object's mtime.
C6_Witness ==
    \E s \in Sessions :
        /\ StatAfterStat(s) /\ result[s].kind = "stat" /\ Timestamped(result[s])
        /\ result[s].stat.mtime < TimeNow(now)
        /\ result[s] = prev[s].result

\* Sessions s and t have each written path p, and s has then read it: the
\* only three calls so far, the read started after the last store change.
TwoWritesThenRead(s, t) ==
    /\ s # t
    /\ budget = MaxOps - 3
    /\ Done(t, "write") /\ op[t].path = op[s].path
    /\ prev[s].op.kind = "write" /\ prev[s].op.path = op[s].path
    /\ Done(s, "read") /\ undisturbed[s]

TwoPayloads(s, t) ==
    {RetBytes(prev[s].op.content), RetBytes(op[t].content)}

C8_SiblingNamesUnique == NoDuplicates(files)

\* The failure value of an adapter operation.
FailureValue(kind) ==
    CASE kind \in {"write", "delete", "mkdir", "rename"} -> RetBool(FALSE)
      [] kind \in {"stat", "read"} -> RetNone
      [] kind = "list" -> RetList({})

\* C9: a call one of whose remote calls raised an error has returned the
\* failure value of its operation (and made no further remote call).
C9_RemoteErrorIsAFailureValue ==
    \A s \in Sessions :
        calls[s].failed =>
            /\ pc[s] = "idle"
            /\ result[s] = FailureValue(op[s].kind)

\* C10: the second of two resolutions of a non-root path in a row, the
\* first of which found the object, within the cache timeout, issues no
\* remote lookup.
C10_SecondResolutionIsACacheHit ==
    \A s \in Sessions :
        ( /\ StatAfterStat(s)
          /\ op[s].path # <<>>
          /\ prev[s].result.kind = "stat" )
            => calls[s].lookups = 0

\* The path without its last segment, stated on the segments alone.
Above(path) == SubSeq(path, 1, Len(path) - 1)

\* Session s takes a step that ends a resolution of `path`, which nothing in
\* the store is at, without a remote error.
EndsMissing(s, at, path) ==
    /\ pc[s] = at /\ pc'[s] # at
    /\ ~calls'[s].failed
    /\ DenotedIds(files, path) = {}

\* The call of session s returns failure at this step, having issued no
\* create, update or delete call.
FailsUntouched(s) ==
    /\ pc'[s] = "idle"
    /\ result'[s] = RetBool(FALSE)
    /\ calls'[s].mutation = "none"
    /\ files' = files /\ nextId' = nextId

\* C11: when the resolution of the source path of a delete or rename, or of
\* the parent path of a write or mkdir, finds nothing in the store, the call
\* returns failure there and then, and no create, update or delete call is
\* issued to the remote.
C11_NotFoundNeverMutates ==
    [][\A s \in Sessions :
        /\ ( /\ op[s].kind \in {"delete", "rename"}
             /\ EndsMissing(s, "resolve", op[s].path) ) => FailsUntouched(s)
        /\ ( /\ op[s].kind \in {"write", "mkdir"}
             /\ op[s].path # <<>>
             /\ EndsMissing(s, "resolve_parent", Above(op[s].path)) )
           => FailsUntouched(s)
      ]_vars

\* C11 witness: a write whose parent folder is not in a store that holds
\* other objects returned failure after its lookup, with no mutating call.
C11_Witness ==
    \E s \in Sessions :
        /\ Done(s, "write") /\ result[s] = RetBool(FALSE)
        /\ Len(op[s].path) = 2
        /\ DenotedIds(files, Above(op[s].path)) = {}
        /\ files # {}
        /\ calls[s].lookups = 1 /\ ~calls[s].failed
        /\ calls[s].mutation = "none"

\* C12: a stat whose resolution finds nothing at the path (its first or any
\* later segment has no match) returns None at that lookup, and no step of
\* the resolution changes the remote store or the resolution cache.
C12_FailedStatLeavesNoTrace ==
    [][\A s \in Sessions :
        (op[s].kind = "stat" /\ pc[s] = "resolve" /\ calls'[s] # calls[s]) =>
            /\ files' = files /\ nextId' = nextId
            /\ cache' = cache
            /\ EndsMissing(s, "resolve", op[s].path) =>
                  /\ pc'[s] = "idle"
                  /\ result'[s] = RetNone
                  /\ calls'[s].mutation = "none"
      ]_vars

\* C12 witness: the stat of a two-segment path whose first segment is not in
\* a store that holds other objects returned None after one lookup.
C12_Witness ==
    \E s \in Sessions :
        /\ Done(s, "stat") /\ result[s] = RetNone
        /\ Len(op[s].path) = 2
        /\ DenotedIds(files, Above(op[s].path)) = {}
        /\ files # {} /\ cache = {}
        /\ calls[s].lookups = 1 /\ ~calls[s].failed

\* A session's call of kind `kind` has returned without remote error, right
\* after its successful mkdir of a path that is not the root path.
AfterMkdir(s, kind) ==
    /\ Done(s, kind) /\ result[s].kind # "raise"
    /\ prev[s].op.kind = "mkdir" /\ Ok(prev[s].result)
    /\ prev[s].op.path # <<>>

\* C13: right after a successful createDirectory(d), the listing of d's
\* parent has an entry of type directory named by d's last segment, and
\* stat(d) reports a directory of size 0.
C13_CreatedDirectoryIsListedAndStatted ==
    \A s \in Sessions :
        /\ (AfterMkdir(s, "list") /\ op[s].path = Above(prev[s].op.path))
           => \E e \in result[s].list :
                 /\ e.name = prev[s].op.path[Len(prev[s].op.path)]
                 /\ e.mimeType = FOLDER
        /\ (AfterMkdir(s, "stat") /\ op[s].path = prev[s].op.path)
           => /\ result[s].kind = "stat"
              /\ result[s].stat.isdir
              /\ result[s].stat.size = 0

\* A configuration that validation must reject: the credentials file is
\* missing, the port is outside 1..65535, or username or password is empty.
Invalid(e) ==
    \/ ~e.credentials_exists
    \/ e.FTP_PORT.numeric /\ e.FTP_PORT.value \notin MinPort..MaxPort
    \/ e.FTP_USERNAME = ""
    \/ e.FTP_PASSWORD = ""

InList(x, list) == \E i \in 1..Len(list) : list[i] = x

\* C14: with an invalid configuration the process never authenticates
\* and never serves a session, and once validation has run the process has
\* exited with status 1 and an error reported for what is wrong.
C14_InvalidConfigExitsBeforeAuth ==
    Invalid(env) =>
        /\ ~main.authenticated
        /\ main.pc \in {"start", "validate", "exited", "crashed"}
        /\ \A s \in Sessions : pc[s] = "idle" /\ op[s] = NoOp
        /\ main.pc = "exited" =>
              /\ main.code = 1
              /\ main.errors # <<>>
              /\ ~env.credentials_exists => InList("credentials", main.errors)
              /\ env.FTP_PORT.value \notin MinPort..MaxPort
                    => InList("port", main.errors)
              /\ (env.FTP_USERNAME = "" \/ env.FTP_PASSWORD = "")
                    => InList("login", main.errors)
        /\ main.pc = "crashed" => ~env.FTP_PORT.numeric

\* C14 witness: the process has exited on a port just above the range, the
\* only thing wrong with its configuration.
C14_Witness ==
    /\ env.credentials_exists /\ env.FTP_USERNAME # "" /\ env.FTP_PASSWORD # ""
    /\ env.FTP_PORT.numeric /\ env.FTP_PORT.value = MaxPort + 1
    /\ main.pc = "exited" /\ main.code = 1 /\ main.errors = <<"port">>
    /\ ~main.authenticated

\* The non-trashed children of `parent` named `name`, in the store.
Matches(fs, name, parent) ==
    {o \in fs : ~o.trashed /\ o.name = name /\ o.parent = parent}

\* The id reached from the root by following, for each segment of the path,
\* the first (oldest) match among the children of the object reached so
\* far; NoId when some segment has no match.
RECURSIVE Reached(_, _)
Reached(fs, path) ==
    IF path = <<>> THEN RootId
    ELSE LET p == Reached(fs, Above(path))
             m == Matches(fs, path[Len(path)], p)
         IN  IF p = NoId \/ m = {} THEN NoId
             ELSE CHOOSE id \in Ids(m) : \A i \in Ids(m) : id <= i

\* C15: the resolution of a non-root path, as a stat that ends without
\* remote error shows it, returns None exactly when the first-match walk
\* from the root fails at some segment, and else the metadata (id, name,
\* type, size) of the object that walk reaches for the last segment.
C15_ResolveFollowsFirstMatches ==
    \A s \in Sessions :
        ( /\ Done(s, "stat") /\ result[s].kind # "raise"
          /\ undisturbed[s] /\ op[s].path # <<>> ) =>
            LET id == Reached(files, op[s].path)
            IN  /\ (result[s] = RetNone) <=> (id = NoId)
                /\ id # NoId =>
                     /\ result[s].kind = "stat"
                     /\ \E o \in files :
                          /\ o.id = id
                          /\ result[s].stat.id = id
                          /\ result[s].stat.name = o.name
                          /\ result[s].stat.isdir = (o.mimeType = FOLDER)
                          /\ result[s].stat.size =
                                IF o.mimeType = FOLDER THEN 0 ELSE Len(o.content)

\* C15 witness: the stat of a two-segment path whose last segment has two
\* matches returned the older of them.
C15_Witness ==
    \E s \in Sessions :
        /\ Done(s, "stat") /\ result[s].kind = "stat" /\ Len(op[s].path) = 2
        /\ \E o \in files, n \in files :
            /\ {o, n} \subseteq Matches(files, op[s].path[2],
                                        Reached(files, Above(op[s].path)))
            /\ o.id < n.id
            /\ result[s].stat.id = o.id

\* Some object of the store is its own ancestor.
HasCycle(fs) == \E o \in fs : o.parent \in Descendants(fs, {o.id})

\* The operations that resolve one path, their own.
SingleResolution == {"stat", "list", "read", "delete", "rename"}

\* The number of the first segment of the path at which the first-match walk
\* finds nothing (0 when it finds all).
FirstMissing(fs, path) ==
    LET missing == {k \in 1..Len(path) : Reached(fs, SubSeq(path, 1, k)) = NoId}
    IN  IF missing = {} THEN 0
        ELSE CHOOSE k \in missing : \A j \in missing : k <= j

\* C16: a resolution has issued one lookup per segment it has passed and
\* never more lookups than its path has segments, none for the root path;
\* it ends at the first lookup that finds nothing, and else at the lookup of
\* the last segment - also on a store whose parent links form a cycle.
C16_ResolutionIsBounded ==
    \A s \in Sessions :
        LET path == op[s].path
            n == Len(path)
        IN  /\ op[s].kind \in SingleResolution =>
                /\ calls[s].lookups <= n
                /\ pc[s] = "resolve" =>
                      /\ walk[s].i <= Len(Parts(path))
                      /\ calls[s].lookups = walk[s].i - 1
                /\ (pc[s] # "resolve" /\ ~calls[s].failed) =>
                      calls[s].lookups =
                          IF FirstMissing(files, path) = 0 \/ ~undisturbed[s]
                          THEN n ELSE FirstMissing(files, path)
            /\ pc[s] = "resolve_parent" =>
                /\ walk[s].i <= Len(Parts(Above(path)))
                /\ calls[s].lookups = walk[s].i - 1
            /\ op[s].kind \in {"write", "mkdir"} =>
                calls[s].lookups <= 2 * n

\* C16 witness: on a store with a cycle of parent links, the resolution of
\* a two-segment path ended with its second lookup, which found nothing.
C16_Witness ==
    \E s \in Sessions :
        /\ HasCycle(files)
        /\ Done(s, "stat") /\ result[s] = RetNone /\ undisturbed[s]
        /\ Len(op[s].path) = 2 /\ calls[s].lookups = 2
        /\ FirstMissing(files, op[s].path) = 2

\* C17: the remote call of a deleteFile(path) the remote accepts is the one
\* mutating call of the operation, a delete of the object the path resolves
\* to, and the operation returns success; the object is gone, every object
\* that is neither it nor a descendant of it stays as it was, and - sibling
\* names having been unique - the path resolves to nothing afterwards: a
\* stat of the path that follows returns None.
C17_DeleteRemovesTheResolvedObject ==
    /\ [][\A s \in Sessions :
            (pc[s] = "delete" /\ pc'[s] = "idle" /\ ~calls'[s].failed) =>
                LET id == calls'[s].target
                    gone == Descendants(files, {id})
                IN  /\ calls[s].mutation = "none"
                    /\ calls'[s].mutation = "delete"
                    /\ Ok(result'[s])
                    /\ id = Reached(files, op[s].path)
                    /\ id \notin Ids(files')
                    /\ files' \subseteq files
                    /\ \A x \in files : x.id \notin gone => x \in files'
                    /\ NoDuplicates(files) => Reached(files', op[s].path) = NoId
         ]_vars
    /\ [](\A s \in Sessions :
            ( /\ Done(s, "stat") /\ result[s].kind # "raise"
              /\ prev[s].op.kind = "delete" /\ prev[s].op.path = op[s].path
              /\ Ok(prev[s].result) /\ prev[s].calls.unique )
                => result[s] = RetNone)

\* C17 witness: a folder that held a file was deleted, an unrelated object
\* is still in the store, and the stat of the path that followed returned
\* None.
C17_Witness ==
    \E s \in Sessions :
        /\ Done(s, "stat") /\ result[s] = RetNone
        /\ prev[s].op.kind = "delete" /\ prev[s].op.path = op[s].path
        /\ Ok(prev[s].result) /\ prev[s].calls.unique
        /\ \E o \in TreeStore : o.parent = prev[s].calls.target
        /\ files # {}
        /\ \A o \in files : o.id # prev[s].calls.target
                            /\ o.parent # prev[s].calls.target

\* The text holds a quote that no backslash escapes.
RECURSIVE HasBareQuote(_)
HasBareQuote(text) ==
    IF text = <<>> THEN FALSE
    ELSE IF Head(text) = BS THEN Len(text) > 1 /\ HasBareQuote(Tail(Tail(text)))
    ELSE Head(text) = QUOTE \/ HasBareQuote(Tail(text))

\* Every backslash of the segment is doubled and every quote preceded by a
\* backslash, nothing else changed: stated character by character.
RECURSIVE Escaped(_, _)
Escaped(part, text) ==
    IF part = <<>> THEN text = <<>>
    ELSE IF Head(part) \in {BS, QUOTE}
    THEN /\ Len(text) >= 2
         /\ text[1] = BS /\ text[2] = Head(part)
         /\ Escaped(Tail(part), Tail(Tail(text)))
    ELSE /\ Len(text) >= 1
         /\ text[1] = Head(part)
         /\ Escaped(Tail(part), Tail(text))

\* C18: the segment embedded in the query is the escaped segment - each
\* backslash doubled, each quote preceded by a backslash - so the quoted
\* literal holds no unescaped quote, and the remote reads from the query
\* the original segment, followed by the rest of the query as written.
C18_EscapedSegmentRoundTrips ==
    /\ esc.pc \in {"build", "ask", "asked"} =>
          /\ Escaped(esc.part, esc.escaped_part)
          /\ ~HasBareQuote(esc.escaped_part)
    /\ esc.pc \in {"ask", "asked"} =>
          esc.query = <<"name=", QUOTE>> \o esc.escaped_part \o QueryTail
    /\ esc.pc = "asked" =>
          /\ esc.asked.closed
          /\ esc.asked.name = esc.part
          /\ esc.asked.rest = QueryTail

\* C18 witness: a segment that ends in a backslash and holds a quote was
\* escaped, embedded and read back by the remote.
C18_Witness ==
    /\ esc.pc = "asked"
    /\ Len(esc.part) = MaxSegmentLen
    /\ esc.part[Len(esc.part)] = BS
    /\ \E i \in 1..Len(esc.part) : esc.part[i] = QUOTE
    /\ esc.asked.name = esc.part

\* The operations that change the store.
Mutating == {"write", "delete", "mkdir", "rename"}

\* C19: no mutating remote call has the root id as its target, no object
\* has the empty name, and a write, delete, mkdir or rename of the root
\* path returns failure without a mutating remote call.
C19_RootIsNeverMutated ==
    /\ \A s \in Sessions : calls[s].mutation # "none" => calls[s].target # RootId
    /\ \A o \in files : o.name # ""
    /\ \A s \in Sessions :
        (pc[s] = "idle" /\ op[s].kind \in Mutating /\ op[s].path = <<>>)
            => result[s] = RetBool(FALSE) /\ calls[s].mutation = "none"

====
